---------------------------- MODULE Spec2Model ----------------------------
(***************************************************************************)
(* Model of the aoc-geom grid utilities: GridBox (clip boxes), the         *)
(* Neighbors and Beam iterators, neighbors8 and Dirn::turn.                *)
(*                                                                         *)
(* The generic parameters T and U of the public functions are instantiated *)
(* at i8 (the tests use 8-bit types); all internal arithmetic is i64,      *)
(* which the explored values never approach, so it is modelled by Int.     *)
(*                                                                         *)
(* One behaviour is one use of the library: an optional GridBox            *)
(* construction followed by one call (clip, neighbors8, turn), or by the   *)
(* construction of one iterator that is then driven with next().           *)
(***************************************************************************)
EXTENDS Integers, Sequences, FiniteSets

VARIABLES
    grid,   \* the GridBox in use, or NoGrid before one is constructed
    call,   \* the library call made, with its arguments
    ret,    \* what the last call (or the last next()) returned
    nbrs,   \* the live Neighbors iterator, or NoCursor
    beam,   \* the live Beam iterator, or NoCursor
    out,    \* the points the live iterator has yielded so far, in order
    done,   \* TRUE once next() of the live iterator has returned None
    extra   \* the number of next() calls made after the one that set done

vars == <<grid, call, ret, nbrs, beam, out, done, extra>>

---------------------------------------------------------------------------
(* Bounds of the explored inputs. *)

\* GridBox::new is explored with row_size, col_size in -1 .. MaxSize.
MaxSize == 4
\* Locations are explored with coordinates in -1 .. MaxCoord.
MaxCoord == 3
\* Neighbor distances are explored in -1 .. MaxDist.
MaxDist == 2
\* Steps and offsets are explored with components in -MaxStep .. MaxStep.
MaxStep == 2
\* Rotation counts are explored in -MaxTurns .. MaxTurns.
MaxTurns == 9
\* An exhausted iterator is called again up to MaxExtra times.
MaxExtra == 2

Sizes  == -1 .. MaxSize
Coords == -1 .. MaxCoord
Points == Coords \X Coords
Dists  == -1 .. MaxDist
Steps  == (-MaxStep .. MaxStep) \X (-MaxStep .. MaxStep)
Turns  == -MaxTurns .. MaxTurns

\* A Beam is driven until it has yielded BeamCap points.  A Beam that ends
\* yields at most MaxSize points on a clip box of the explored sizes (a
\* coordinate moves through 0 .. rows-1 or 0 .. cols-1) and at most MaxCoord
\* points on an unclipped grid (a coordinate falls from MaxCoord to 0), so
\* only Beams that never end are cut short.
BeamCap == (IF MaxSize >= MaxCoord THEN MaxSize ELSE MaxCoord) + 1

---------------------------------------------------------------------------
(* Values. *)

None      == [tag |-> "None"]
Some(v)   == [tag |-> "Some", val |-> v]
Panic     == [tag |-> "Panic"]
\* A returned Dirn, and the items collected from a returned iterator.
Facing(d) == [tag |-> "Dirn", dirn |-> d]
Collected(seq) == [tag |-> "Collected", items |-> seq]
NoCall    == [op |-> "none"]
NoCursor  == [tag |-> "NoCursor"]
NoGrid    == [tag |-> "NoGrid"]

Max(a, b) == IF a >= b THEN a ELSE b
Min(a, b) == IF a <= b THEN a ELSE b

\* Rust's % on i64: the remainder has the sign of the dividend.
RustRem(a, b) == IF a >= 0 THEN a % b ELSE -((-a) % b)

---------------------------------------------------------------------------
(* convert.rs: ConvertInto, at T = U = i8. *)

TMin == -128
TMax == 127

\* T -> i64 (try_into().unwrap()): every i8 is an i64, the value is kept.
ToI64(v) == v

\* i64 -> T: whether try_into() succeeds; unwrap() panics when it does not.
FitsT(v) == TMin <= v /\ v <= TMax

\* (r.convert_into(), c.convert_into()) for an i64 pair.
ConvertPoint(p) == IF FitsT(p[1]) /\ FitsT(p[2]) THEN Some(p) ELSE Panic

---------------------------------------------------------------------------
(* neighbors.rs: GridBox. *)

ClipBox(rows, cols) == [tag |-> "ClipBox", rows |-> rows, cols |-> cols]
Unclipped == [tag |-> "Unclipped"]

\* GridBox::new
GridBoxNew(row_size, col_size) == ClipBox(ToI64(row_size), ToI64(col_size))

\* GridBox::new_grid
GridBoxNewGrid == Unclipped

\* clip without the test for negative coordinates.
ClipNoNegativeCheck(g, loc, off) ==
    LET nr == loc[1] + off[1]
        nc == loc[2] + off[2]
    IN  IF g.tag = "ClipBox" /\ (nr >= g.rows \/ nc >= g.cols) THEN None
        ELSE Some(<<nr, nc>>)

\* clip with > for >= at the bottom and right edges.
ClipInclusiveEdge(g, loc, off) ==
    LET nr == loc[1] + off[1]
        nc == loc[2] + off[2]
    IN  IF nr < 0 \/ nc < 0 THEN None
        ELSE IF g.tag = "ClipBox" /\ (nr > g.rows \/ nc > g.cols) THEN None
        ELSE Some(<<nr, nc>>)

\* GridBox::clip without the conversions: the arithmetic on i64, which is also
\* the instance clip::<i64, i64> that Beam::next calls.
ClipI64(g, loc, off) ==
    LET r  == loc[1]
        c  == loc[2]
        dr == off[1]
        dc == off[2]
        nr == r + dr
        nc == c + dc
    IN  IF nr < 0 \/ nc < 0 THEN None
        ELSE IF g.tag = "ClipBox" /\ (nr >= g.rows \/ nc >= g.cols) THEN None
        ELSE Some(<<nr, nc>>)

\* GridBox::clip at T = U = i8: the arguments widened, the result narrowed.
Clip(g, loc, off) ==
    LET l == ClipI64(g, <<ToI64(loc[1]), ToI64(loc[2])>>,
                        <<ToI64(off[1]), ToI64(off[2])>>)
    IN  IF l.tag = "Some" THEN ConvertPoint(l.val) ELSE None

---------------------------------------------------------------------------
(* neighbors.rs: Neighbors. *)

Cursor(orig, loc, start, end) ==
    [tag |-> "Neighbors", orig |-> orig, loc |-> loc, start |-> start, end |-> end]

\* Neighbors::new with the lower-right corner one short.
NeighborsNewShortEnd(bounds, orig, dist) ==
    IF ~(dist > 0) THEN Panic
    ELSE LET r == orig[1]
             c == orig[2]
             start == <<Max(0, r - dist), Max(0, c - dist)>>
             end == IF bounds.tag = "ClipBox"
                    THEN <<Min(bounds.rows, r + dist), Min(bounds.cols, c + dist)>>
                    ELSE <<r + dist, c + dist>>
         IN  [tag |-> "Neighbors", orig |-> orig, loc |-> start, start |-> start, end |-> end]

\* Neighbors::new; Panic when assert!(dist > 0) fails.
NeighborsNew(bounds, orig, dist) ==
    IF ~(dist > 0) THEN Panic
    ELSE LET r == orig[1]
             c == orig[2]
             start == <<Max(0, r - dist), Max(0, c - dist)>>
             end == IF bounds.tag = "ClipBox"
                    THEN <<Min(bounds.rows, r + dist + 1), Min(bounds.cols, c + dist + 1)>>
                    ELSE <<r + dist + 1, c + dist + 1>>
         IN  Cursor(orig, start, start, end)

\* GridBox::neighbors with <= for < in the clip box assertion.
GridBoxNeighborsLax(g, location, dist) ==
    LET r == ToI64(location[1])
        c == ToI64(location[2])
    IN  IF ~(r >= 0 /\ c >= 0) THEN Panic
        ELSE IF g.tag = "ClipBox" /\ ~(r <= g.rows /\ c <= g.cols) THEN Panic
        ELSE NeighborsNew(g, <<r, c>>, ToI64(dist))

\* GridBox::neighbors; Panic when one of its assertions, or Neighbors::new's, fails.
GridBoxNeighbors(g, location, dist) ==
    LET r == ToI64(location[1])
        c == ToI64(location[2])
    IN  IF ~(r >= 0 /\ c >= 0) THEN Panic
        ELSE IF g.tag = "ClipBox" /\ ~(r < g.rows /\ c < g.cols) THEN Panic
        ELSE NeighborsNew(g, <<r, c>>, ToI64(dist))

\* Neighbors::next rewinding to the upper-left corner when it runs out of rows.
RECURSIVE NeighborsNextRewind(_)
NeighborsNextRewind(s) ==
    IF s.loc = s.orig
    THEN NeighborsNextRewind([s EXCEPT !.loc = <<s.loc[1], s.loc[2] + 1>>])
    ELSE IF s.loc[1] >= s.end[1]
    THEN [self |-> [s EXCEPT !.loc = s.start], result |-> None]
    ELSE IF s.loc[2] >= s.end[2]
    THEN NeighborsNextRewind([s EXCEPT !.loc = <<s.loc[1] + 1, s.start[2]>>])
    ELSE LET result == ConvertPoint(s.loc)
         IN  IF result = Panic
             THEN [self |-> s, result |-> Panic]
             ELSE [self |-> [s EXCEPT !.loc = <<s.loc[1], s.loc[2] + 1>>],
                   result |-> result]

\* Neighbors::next: the iterator after the call, and what the call returns.
RECURSIVE NeighborsNext(_)
NeighborsNext(s) ==
    IF s.loc = s.orig
    THEN NeighborsNext([s EXCEPT !.loc = <<s.loc[1], s.loc[2] + 1>>])
    ELSE IF s.loc[1] >= s.end[1]
    THEN [self |-> s, result |-> None]
    ELSE IF s.loc[2] >= s.end[2]
    THEN NeighborsNext([s EXCEPT !.loc = <<s.loc[1] + 1, s.start[2]>>])
    ELSE LET result == ConvertPoint(s.loc)
         IN  IF result = Panic
             THEN [self |-> s, result |-> Panic]
             ELSE [self |-> [s EXCEPT !.loc = <<s.loc[1], s.loc[2] + 1>>],
                   result |-> result]

---------------------------------------------------------------------------
(* neighbors.rs: Beam. *)

\* Beam::new; Panic when assert!(step != (0, 0)) fails.  The iterator's
\* clip field refers to the GridBox, which is the variable grid.
BeamNew(loc, step) ==
    IF ~(step # <<0, 0>>) THEN Panic
    ELSE [tag |-> "Beam", loc |-> loc, step |-> step]

\* GridBox::beam
GridBoxBeam(location, step) ==
    BeamNew(<<ToI64(location[1]), ToI64(location[2])>>,
            <<ToI64(step[1]), ToI64(step[2])>>)

\* Beam::next without the assignment self.loc = l.
BeamNextStale(g, s) ==
    LET l == ClipI64(g, s.loc, s.step)
    IN  IF l.tag = "Some"
        THEN [self |-> s, result |-> ConvertPoint(l.val)]
        ELSE [self |-> s, result |-> None]

\* Beam::next: the iterator after the call, and what the call returns.
BeamNext(g, s) ==
    LET l == ClipI64(g, s.loc, s.step)
    IN  IF l.tag = "Some"
        THEN [self |-> [s EXCEPT !.loc = l.val], result |-> ConvertPoint(l.val)]
        ELSE [self |-> s, result |-> None]

---------------------------------------------------------------------------
(* neighbors.rs: neighbors8. *)

\* The inclusive range a ..= b as a sequence.
RangeInclusive(a, b) == [i \in 1 .. Max(0, b - a + 1) |-> a + i - 1]

\* (-dist ..= dist).map(move |c| (r, c))
Row(dist, r) ==
    [i \in 1 .. Len(RangeInclusive(-dist, dist)) |-> <<r, RangeInclusive(-dist, dist)[i]>>]

\* rows.flat_map(move |r| (-dist ..= dist).map(move |c| (r, c))): the rows of
\* the elements r of rows, one after the other.
RECURSIVE FlatMap(_, _)
FlatMap(dist, rows) ==
    IF rows = <<>> THEN <<>> ELSE Row(dist, Head(rows)) \o FlatMap(dist, Tail(rows))

\* map over a sequence of i64 pairs of (r.convert_into(), c.convert_into()):
\* Panic as soon as one conversion fails.
ConvertPoints(seq) ==
    IF \A i \in 1 .. Len(seq) : ConvertPoint(seq[i]) # Panic THEN Collected(seq) ELSE Panic

\* neighbors8 without the filter that drops (0, 0).
Neighbors8NoFilter(dist0) ==
    LET dist == ToI64(dist0)
    IN  IF ~(dist > 0) THEN Panic
        ELSE ConvertPoints(FlatMap(dist, RangeInclusive(-dist, dist)))

\* neighbors8, collected; Panic when assert!(dist > 0) fails.
Neighbors8(dist0) ==
    LET dist == ToI64(dist0)
        notOrigin(p) == p # <<0, 0>>
    IN  IF ~(dist > 0) THEN Panic
        ELSE ConvertPoints(SelectSeq(FlatMap(dist, RangeInclusive(-dist, dist)), notOrigin))

---------------------------------------------------------------------------
(* dirns.rs: Dirn and Rot. *)

\* FACINGS
FACINGS == <<"Up", "Left", "Down", "Right">>

Dirns == {"Up", "Left", "Down", "Right"}
Rots  == {"CCW", "CW"}

\* enum Dirn's discriminants: self as usize
DirnAsUsize(d) ==
    CASE d = "Up" -> 0 [] d = "Left" -> 1 [] d = "Down" -> 2 [] d = "Right" -> 3

\* FACINGS.len()
NFacings == Len(FACINGS)

\* turn with a negative count replaced by its magnitude.
TurnNegAbs(self, rot, steps0) ==
    LET steps1 == ToI64(steps0)
        steps == IF steps1 < 0 THEN -steps1 ELSE steps1
        offset == IF rot = "CCW" THEN steps % NFacings
                  ELSE ((NFacings - 1) * steps) % NFacings
    IN  FACINGS[((DirnAsUsize(self) + offset) % NFacings) + 1]

\* turn with the clockwise offset computed like the counter-clockwise one.
TurnCWAsCCW(self, rot, steps0) ==
    LET steps1 == ToI64(steps0)
        steps == IF steps1 < 0 THEN RustRem(4 - RustRem(-steps1, 4), 4) ELSE steps1
        offset == steps % NFacings
    IN  FACINGS[((DirnAsUsize(self) + offset) % NFacings) + 1]

\* turn with + for * in the clockwise offset.
TurnCWPlus(self, rot, steps0) ==
    LET steps1 == ToI64(steps0)
        steps == IF steps1 < 0 THEN RustRem(4 - RustRem(-steps1, 4), 4) ELSE steps1
        offset == IF rot = "CCW" THEN steps % NFacings
                  ELSE ((NFacings - 1) + steps) % NFacings
    IN  FACINGS[((DirnAsUsize(self) + offset) % NFacings) + 1]

\* Dirn::turn
Turn(self, rot, steps0) ==
    LET steps1 == ToI64(steps0)
        steps == IF steps1 < 0 THEN RustRem(4 - RustRem(-steps1, 4), 4) ELSE steps1
        nfacings == NFacings
        offset == IF rot = "CCW" THEN steps % nfacings
                  ELSE ((nfacings - 1) * steps) % nfacings
    IN  FACINGS[((DirnAsUsize(self) + offset) % nfacings) + 1]

---------------------------------------------------------------------------
(* The library in use. *)

Init ==
    /\ grid = NoGrid
    /\ call = NoCall
    /\ ret = None
    /\ nbrs = NoCursor
    /\ beam = NoCursor
    /\ out = <<>>
    /\ done = FALSE
    /\ extra = 0

\* No call has been made yet.
Idle == call = NoCall

\* let g = GridBox::new(row_size, col_size);
NewGridBox ==
    /\ grid = NoGrid
    /\ Idle
    /\ \E row_size, col_size \in Sizes : grid' = GridBoxNew(row_size, col_size)
    /\ UNCHANGED <<call, ret, nbrs, beam, out, done, extra>>

\* let g = GridBox::new_grid();
NewGrid ==
    /\ grid = NoGrid
    /\ Idle
    /\ grid' = GridBoxNewGrid
    /\ UNCHANGED <<call, ret, nbrs, beam, out, done, extra>>

\* g.clip(loc, off)
CallClip ==
    /\ grid # NoGrid
    /\ Idle
    /\ \E loc \in Points, off \in Steps :
          /\ call' = [op |-> "clip", loc |-> loc, off |-> off]
          /\ ret' = Clip(grid, loc, off)
    /\ UNCHANGED <<grid, nbrs, beam, out, done, extra>>

\* let it = g.neighbors(location, dist);
CallNeighbors ==
    /\ grid # NoGrid
    /\ Idle
    /\ \E location \in Points, dist \in Dists :
          /\ call' = [op |-> "neighbors", loc |-> location, dist |-> dist]
          /\ LET it == GridBoxNeighbors(grid, location, dist)
             IN  IF it = Panic
                 THEN ret' = Panic /\ nbrs' = nbrs
                 ELSE ret' = None /\ nbrs' = it
    /\ UNCHANGED <<grid, beam, out, done, extra>>

\* it.next() on the Neighbors iterator
CallNeighborsNext ==
    /\ nbrs # NoCursor
    /\ ret # Panic
    /\ done => extra < MaxExtra
    /\ LET n == NeighborsNext(nbrs)
       IN  /\ nbrs' = n.self
           /\ ret' = n.result
           /\ out' = IF n.result.tag = "Some" THEN Append(out, n.result.val) ELSE out
           /\ done' = (done \/ n.result = None)
           /\ extra' = IF done THEN extra + 1 ELSE extra
    /\ UNCHANGED <<grid, call, beam>>

\* let it = g.beam(location, step);
CallBeam ==
    /\ grid # NoGrid
    /\ Idle
    /\ \E location \in Points, step \in Steps :
          /\ call' = [op |-> "beam", loc |-> location, step |-> step]
          /\ LET it == GridBoxBeam(location, step)
             IN  IF it = Panic
                 THEN ret' = Panic /\ beam' = beam
                 ELSE ret' = None /\ beam' = it
    /\ UNCHANGED <<grid, nbrs, out, done, extra>>

\* it.next() on the Beam iterator; the model stops driving an iterator that
\* has yielded BeamCap points.
CallBeamNext ==
    /\ beam # NoCursor
    /\ ret # Panic
    /\ Len(out) < BeamCap
    /\ done => extra < MaxExtra
    /\ LET n == BeamNext(grid, beam)
       IN  /\ beam' = n.self
           /\ ret' = n.result
           /\ out' = IF n.result.tag = "Some" THEN Append(out, n.result.val) ELSE out
           /\ done' = (done \/ n.result = None)
           /\ extra' = IF done THEN extra + 1 ELSE extra
    /\ UNCHANGED <<grid, call, nbrs>>

\* neighbors8(dist).collect()
CallNeighbors8 ==
    /\ grid = NoGrid
    /\ Idle
    /\ \E dist \in Dists :
          /\ call' = [op |-> "neighbors8", dist |-> dist]
          /\ ret' = Neighbors8(dist)
    /\ UNCHANGED <<grid, nbrs, beam, out, done, extra>>

\* let d = self.turn(rot, steps);
CallTurn ==
    /\ grid = NoGrid
    /\ Idle
    /\ \E self \in Dirns, rot \in Rots, steps \in Turns :
          /\ call' = [op |-> "turn", self |-> self,
                      turns |-> <<[rot |-> rot, steps |-> steps]>>]
          /\ ret' = Facing(Turn(self, rot, steps))
    /\ UNCHANGED <<grid, nbrs, beam, out, done, extra>>

\* let d = d.turn(rot, steps); on the direction the first turn returned
CallTurnAgain ==
    /\ call.op = "turn"
    /\ Len(call.turns) = 1
    /\ \E rot \in Rots, steps \in Turns :
          /\ call' = [call EXCEPT !.turns = Append(@, [rot |-> rot, steps |-> steps])]
          /\ ret' = Facing(Turn(ret.dirn, rot, steps))
    /\ UNCHANGED <<grid, nbrs, beam, out, done, extra>>

Next ==
    \/ NewGridBox
    \/ NewGrid
    \/ CallClip
    \/ CallNeighbors
    \/ CallNeighborsNext
    \/ CallBeam
    \/ CallBeamNext
    \/ CallNeighbors8
    \/ CallTurn
    \/ CallTurnAgain

Spec == Init /\ [][Next]_vars

\* Whoever holds an iterator keeps calling next() on it.
FairSpec == Spec /\ WF_vars(CallBeamNext) /\ WF_vars(CallNeighborsNext)

---------------------------------------------------------------------------
(* Vocabulary of the properties. *)

\* p + k * s
Along(p, s, k) == <<p[1] + k * s[1], p[2] + k * s[2]>>

\* In bounds: no negative coordinate and, for a clip box, inside the box.
InBounds(g, p) ==
    /\ p[1] >= 0
    /\ p[2] >= 0
    /\ g.tag = "ClipBox" => (p[1] < g.rows /\ p[2] < g.cols)

\* Row-major order on points.
RowMajorLess(p, q) == p[1] < q[1] \/ (p[1] = q[1] /\ p[2] < q[2])

StrictlyRowMajor(seq) ==
    \A i \in 1 .. Len(seq) - 1 : RowMajorLess(seq[i], seq[i + 1])

Range(seq) == {seq[i] : i \in 1 .. Len(seq)}

\* The window of neighbors(g, <<r, c>>, d) as a set of points.
Window(g, p, d) ==
    LET rowEnd == IF g.tag = "ClipBox" THEN Min(g.rows, p[1] + d + 1) ELSE p[1] + d + 1
        colEnd == IF g.tag = "ClipBox" THEN Min(g.cols, p[2] + d + 1) ELSE p[2] + d + 1
    IN  (Max(0, p[1] - d) .. rowEnd - 1) \X (Max(0, p[2] - d) .. colEnd - 1)

\* The non-negative residue of a modulo n.
Abs(a) == IF a >= 0 THEN a ELSE -a
Residue(a, n) == CHOOSE m \in 0 .. n - 1 : \E q \in -Abs(a) .. Abs(a) : a = q * n + m

NeighborsLive == call.op = "neighbors" /\ nbrs # NoCursor
BeamLive      == call.op = "beam" /\ beam # NoCursor

---------------------------------------------------------------------------
(* C1 *)

---------------------------------------------------------------------------
(* C2 *)

\* C2: the k-th point a Beam yields is p + k*s, so the start p is never
\* yielded; every yielded point is in bounds; and the Beam ends exactly when
\* the next point p + k*s is out of bounds.
C2_BeamPoints ==
    BeamLive =>
        /\ \A k \in 1 .. Len(out) :
              /\ out[k] = Along(call.loc, call.step, k)
              /\ out[k] # call.loc
              /\ InBounds(grid, out[k])
        /\ done => ~InBounds(grid, Along(call.loc, call.step, Len(out) + 1))
        /\ (ret = None /\ ~done) => out = <<>>
        /\ ret.tag = "Some" => (out # <<>> /\ ret.val = out[Len(out)] /\ ~done)

\* A Beam that yielded at least two points and then ended.
C2_Witness ==
    /\ BeamLive
    /\ done
    /\ Len(out) >= 2
    /\ ~InBounds(grid, call.loc)

---------------------------------------------------------------------------
(* C3 *)

\* C3: clip(p, o) returns Some(p + o) when p + o has no negative coordinate
\* and, for a clip box, lies inside the box; it returns None in every other
\* case, whether or not p itself is in bounds.
C3_ClipExact ==
    call.op = "clip" =>
        LET n == Along(call.loc, call.off, 1)
        IN  ret = IF InBounds(grid, n) THEN Some(n) ELSE None

\* clip from a point outside a clip box to a point on its last row and column.
C3_Witness ==
    /\ call.op = "clip"
    /\ grid.tag = "ClipBox"
    /\ ~InBounds(grid, call.loc)
    /\ ret.tag = "Some"
    /\ ret.val = <<grid.rows - 1, grid.cols - 1>>

---------------------------------------------------------------------------
(* C4 *)

\* C4: with i the index of d in [Up, Left, Down, Right], turn(d, CCW, k) is the
\* direction at index (i + k) mod 4 and turn(d, CW, k) the one at index
\* (i - k) mod 4, for every signed count k.
C4_TurnIndex ==
    (call.op = "turn" /\ Len(call.turns) = 1) =>
        LET i == DirnAsUsize(call.self)
            k == call.turns[1].steps
            j == IF call.turns[1].rot = "CCW" THEN Residue(i + k, 4) ELSE Residue(i - k, 4)
        IN  ret = Facing(<<"Up", "Left", "Down", "Right">>[j + 1])

\* test_rot: Right.turn(CW, -9) is Up.
C4_Witness ==
    /\ call.op = "turn"
    /\ call.self = "Right"
    /\ call.turns = <<[rot |-> "CW", steps |-> -9]>>
    /\ ret = Facing("Up")

---------------------------------------------------------------------------
(* C5 *)

\* Some point p + k*s, k >= 1, of the beam has a negative coordinate.
GoesNegative(p, s) ==
    \/ s[1] < 0
    \/ s[2] < 0
    \/ p[1] + s[1] < 0
    \/ p[2] + s[2] < 0

\* C5 as stated: a Beam that has ended is a Beam on a clip box.
C5_FiniteIffClipped ==
    (BeamLive /\ done) => grid.tag = "ClipBox"

\* C5 as amended: a Beam ends only on a clip box or when some p + k*s has a
\* negative coordinate, and every such Beam does end.  (A Beam that never ends
\* is seen here as one that has not ended after BeamCap points.)
C5_FiniteIfClipped ==
    /\ []((BeamLive /\ done) => (grid.tag = "ClipBox" \/ GoesNegative(call.loc, call.step)))
    /\ (BeamLive /\ (grid.tag = "ClipBox" \/ GoesNegative(call.loc, call.step))) ~> done

\* test_beam_infinite's second case in small: an unclipped Beam that ended
\* after two points.
C5_Witness ==
    /\ BeamLive
    /\ done
    /\ grid = Unclipped
    /\ Len(out) = 2
    /\ InBounds(grid, call.loc)

---------------------------------------------------------------------------
(* C6 *)

\* C6: neighbors(location, dist) panics, leaving no iterator and no point,
\* exactly when dist <= 0, or a coordinate of location is negative, or the
\* grid is a clip box and location is not inside it; clip never panics.
C6_NeighborsPanics ==
    /\ call.op = "neighbors" =>
          /\ (ret = Panic) <=>
                \/ call.dist <= 0
                \/ call.loc[1] < 0
                \/ call.loc[2] < 0
                \/ grid.tag = "ClipBox" /\ (call.loc[1] >= grid.rows \/ call.loc[2] >= grid.cols)
          /\ (ret = Panic) => (nbrs = NoCursor /\ out = <<>>)
          /\ (ret # Panic) => nbrs.tag = "Neighbors"
    /\ call.op = "clip" => ret # Panic

\* neighbors on the first row past a clip box, with a valid distance.
C6_Witness ==
    /\ call.op = "neighbors"
    /\ ret = Panic
    /\ call.dist > 0
    /\ grid.tag = "ClipBox"
    /\ call.loc[1] = grid.rows
    /\ call.loc[1] > 0
    /\ call.loc[2] >= 0
    /\ call.loc[2] < grid.cols

---------------------------------------------------------------------------
(* C7 *)

\* C7: turning CCW by k and then CW by the same k gives the direction back.
C7_TurnInverse ==
    ( /\ call.op = "turn"
      /\ Len(call.turns) = 2
      /\ call.turns[1].rot = "CCW"
      /\ call.turns[2].rot = "CW"
      /\ call.turns[1].steps = call.turns[2].steps ) => ret = Facing(call.self)

\* Up turned CCW by -5, which is Right, and then CW by -5.
C7_Witness ==
    /\ call.op = "turn"
    /\ call.self = "Up"
    /\ call.turns = <<[rot |-> "CCW", steps |-> -5], [rot |-> "CW", steps |-> -5]>>
    /\ ret = Facing("Up")

---------------------------------------------------------------------------
(* C8 *)

\* C8: a clockwise turn by -n, n >= 0, returns what a counter-clockwise turn
\* by n returns.
C8_TurnSymmetry ==
    ( /\ call.op = "turn"
      /\ Len(call.turns) = 1
      /\ call.turns[1].rot = "CW"
      /\ call.turns[1].steps <= 0 ) => ret = Facing(Turn(call.self, "CCW", -call.turns[1].steps))

\* Left turned CW by -3, which is Up.
C8_Witness ==
    /\ call.op = "turn"
    /\ call.self = "Left"
    /\ call.turns = <<[rot |-> "CW", steps |-> -3]>>
    /\ ret = Facing("Up")

---------------------------------------------------------------------------
(* C9 *)

\* C9: for d > 0 neighbors8(d) yields the (2d+1)^2 - 1 offsets of
\* [-d, d] x [-d, d] other than (0, 0), each once, in row-major order; for
\* d <= 0 it panics.
C9_Neighbors8 ==
    call.op = "neighbors8" =>
        LET d == call.dist
        IN  IF d > 0
            THEN /\ ret.tag = "Collected"
                 /\ Len(ret.items) = (2 * d + 1) * (2 * d + 1) - 1
                 /\ StrictlyRowMajor(ret.items)
                 /\ Range(ret.items) = ((-d .. d) \X (-d .. d)) \ {<<0, 0>>}
            ELSE ret = Panic

\* test_neighbors8: the eight unit offsets.
C9_Witness ==
    /\ call.op = "neighbors8"
    /\ call.dist = 1
    /\ ret = Collected(<< <<-1, -1>>, <<-1, 0>>, <<-1, 1>>, <<0, -1>>, <<0, 1>>,
                          <<1, -1>>, <<1, 0>>, <<1, 1>> >>)

---------------------------------------------------------------------------
(* C10 *)

\* C10: a clip box made by GridBox::new has rows >= 0 and cols >= 0.
C10_ClipBoxNonNegative ==
    grid.tag = "ClipBox" => (grid.rows >= 0 /\ grid.cols >= 0)

---------------------------------------------------------------------------
(* C11 *)

\* C11: once next() of a Neighbors or Beam iterator has returned None, every
\* later call returns None again and yields no further point, and such a call
\* leaves a Beam's location and step as they were.
C11_SinglePass ==
    [][done => (/\ done'
                /\ ret' = None
                /\ out' = out
                /\ beam' = beam)]_vars

\* A Beam that yielded points, ended, and was called twice more.
C11_Witness ==
    /\ BeamLive
    /\ done
    /\ extra >= 2
    /\ out # <<>>
    /\ ret = None

---------------------------------------------------------------------------
(* C12 *)

\* clip(p, o) for each offset o of offsets, in order, keeping the points of
\* the results that are not None.
RECURSIVE ClipEach(_, _, _)
ClipEach(g, p, offsets) ==
    IF offsets = <<>> THEN <<>>
    ELSE LET l == Clip(g, p, Head(offsets))
             rest == ClipEach(g, p, Tail(offsets))
         IN  IF l.tag = "Some" THEN <<l.val>> \o rest ELSE rest

IsPrefix(a, b) == Len(a) <= Len(b) /\ a = SubSeq(b, 1, Len(a))

===========================================================================
